---- MODULE Spec2Model ----
(***************************************************************************)
(* uritool: the URL cache (httpcache.py), the profile paginator            *)
(* (urilib.get_public_problems), the progress table (Discipline.progress), *)
(* the language filter (util.normalize_language, urilib.filter_problems)   *)
(* and the command line (__main__.main).                                   *)
(*                                                                         *)
(* Python values are tagged pairs <<type, v>>:                             *)
(*   <<"None", 0>>        None                                             *)
(*   <<"int", n>>         an int (an HTTP status code, an expires value)   *)
(*   <<"str", t>>         a response text, t its identity                  *)
(*   <<"datetime", m>>    a datetime, m minutes on the wall clock          *)
(*   <<"doc", t>>         the lxml tree parsed from text t                 *)
(* An exception is <<class name, first argument>>.                         *)
(***************************************************************************)
EXTENDS Integers, Sequences, FiniteSets, TLC

VARIABLES
    cache,          \* the shelve: a function from the stored urls to <<cdate, data>>
    INTERNET_SLOW,  \* httpcache.INTERNET_SLOW
    now,            \* datetime.datetime.now(), in minutes
    last,           \* history: the last completed urlopen/htmlopen/urlrefresh call
    pc,             \* get_public_problems: position of the running call
    i,              \* get_public_problems: local i
    refreshed,      \* get_public_problems: local refreshed
    problems,       \* get_public_problems: local problems
    exc,            \* get_public_problems: the exception that left the call
    trace,          \* history: the page loads and refreshes of the running call
    arg,            \* the arguments of a call of a function of urilib/util/__main__
    ret,            \* how that call ended: returned or raised, and the value
    disk,           \* the cache file: the shelve as the last sync (or close) left it
    grades,         \* Grader.data: the grade column, by student
    files           \* Grader: the report saved at path and the files <path>.bak-<idx>

vars ==
    <<cache, INTERNET_SLOW, now, last, pc, i, refreshed, problems, exc, trace, arg, ret,
      disk, grades, files>>
pagvars == <<pc, i, refreshed, problems, exc, trace>>
fnvars == <<arg, ret>>
gradervars == <<grades, files>>

(* ------------------------------ bounds ------------------------------- *)
MaxPage == 3        \* page urls 1..MaxPage exist in the model
MaxTicks == 2       \* the clock is advanced at most MaxTicks times
TickMinutes == 120  \* minutes per clock advance

(* ------------------------- program constants ------------------------- *)
MINUTE_DELTA == 1
HTTP_OK == 200
NOT_FOUND == 404
PAGE_SIZE == 28
REFRESH_EXPIRES == 120
TIMEOUT_CACHED == 10
TIMEOUT_COLD == 30

(* --------------------------- value helpers --------------------------- *)
None == <<"None", 0>>
PyInt(n) == <<"int", n>>
PyStr(t) == <<"str", t>>
PyDate(m) == <<"datetime", m>>
IsNone(x) == x[1] = "None"
IsInt(x) == x[1] = "int"

\* The url of page p of the profile; urls are identified by the page index.
urlbase(p) == p
URLS == {urlbase(p) : p \in 1..MaxPage} \cup {urlbase(1), urlbase(2)}

\* The documents the site may serve at a url: variant v of the page.
Variants == 1..4
TextOf(url, v) == url * 10 + v
TextsOf(url) == {TextOf(url, v) : v \in Variants}
StatusCodes == {HTTP_OK, NOT_FOUND, 500}

\* The outcomes of session.get(url, timeout=...): an exception of the
\* transport, or a response with a status code and a text.
NetFail == [kind |-> "exc", status |-> 0, text |-> 0]
NetResp(s, t) == [kind |-> "resp", status |-> s, text |-> t]
NetOutcomes(url) ==
    {NetFail}
    \cup {NetResp(HTTP_OK, t) : t \in TextsOf(url)}
    \cup {NetResp(s, 0) : s \in StatusCodes \ {HTTP_OK}}

\* The arguments and the documents of the calls made on the cache directly;
\* FetchVariants are also the documents a cache file holds at start.
FetchUrls == {urlbase(1), urlbase(2)}
FetchVariants == {1, 2}
ExpiresValues == {None, PyInt(REFRESH_EXPIRES)}
FetchOutcomes(url) ==
    {n \in NetOutcomes(url) :
        n.status = HTTP_OK => n.text \in {TextOf(url, v) : v \in FetchVariants}}

(* ------------------------------ the cache ---------------------------- *)
\* cache.get(url, (None, None))
CacheGet(c, url) == IF url \in DOMAIN c THEN c[url] ELSE <<None, None>>

\* Mutant of CachePut: the shelf is left with the new entry alone.
CachePut_alone(c, url, value) == [u \in {url} |-> value]

\* cache[url] = value
CachePut(c, url, value) ==
    [u \in DOMAIN c \cup {url} |-> IF u = url THEN value ELSE c[u]]

\* del cache[url]
CacheDel(c, url) == [u \in DOMAIN c \ {url} |-> c[u]]

\* Mutant of urlsave: the value is not stored.
urlsave_dropped(c, t, url, data) == c

\* urlsave(url, data)
urlsave(c, t, url, data) == CachePut(c, url, <<PyDate(t), data>>)

(* ------------------------------ urlopen ------------------------------ *)
NoRequest == [kind |-> "none", status |-> 0, text |-> 0]

\* What a call did: how it ended (out: "return" or "raise"), the value
\* returned or the exception raised, the cache and the flag it leaves, and
\* the live request it issued (req: their number; net: its outcome).
Done(out, value, c, slow, req, timeout, net) ==
    [out |-> out, value |-> value, cache |-> c, slow |-> slow,
     req |-> req, timeout |-> timeout, net |-> net]

\* Mutant of CachedError: the isinstance test is left out.
CachedError_skipped(refresh, data) == FALSE

\* elif isinstance(data, int): a recorded status code, and no refresh asked
CachedError(refresh, data) == ~refresh /\ IsInt(data)

\* Mutant of NoFreshnessCheck: the flag is not consulted.
NoFreshnessCheck_noflag(expires, slow) == IsNone(expires)

\* if expires is None or INTERNET_SLOW
NoFreshnessCheck(expires, slow) == IsNone(expires) \/ slow

\* Mutant of IsFresh: strict comparison.
IsFresh_strict(t, cdate, expires) == t - cdate[2] < MINUTE_DELTA * expires[2]

\* delta = datetime.datetime.now() - cdate; delta <= MINUTE_DELTA * expires
IsFresh(t, cdate, expires) == t - cdate[2] <= MINUTE_DELTA * expires[2]

\* Mutant of Timeout: the long timeout in every case.
Timeout_long(c, url) == TIMEOUT_COLD

\* timeout = 10 if url in cache else 30
Timeout(c, url) == IF url \in DOMAIN c THEN TIMEOUT_CACHED ELSE TIMEOUT_COLD

\* Mutant of SlowAfterFailure: the flag is left as it was.
SlowAfterFailure_kept(slow) == slow

\* except: INTERNET_SLOW = True
SlowAfterFailure(slow) == TRUE

\* Mutant of ResponseData: the status code is the payload of every answer.
ResponseData_status(net) == PyInt(net.status)

\* data = request.status_code if request.status_code != 200 else request.text
ResponseData(net) ==
    IF net.status # HTTP_OK THEN PyInt(net.status) ELSE PyStr(net.text)

\* Mutant of Download: an answered request clears the flag.
Download_resets(c, slow, t, url, net) ==
    IF net.kind = "exc"
    THEN IF url \in DOMAIN c
         THEN Done("raise", <<"UnboundLocalError", 0>>, c, SlowAfterFailure(slow),
                   1, Timeout(c, url), net)
         ELSE Done("raise", <<"TransportError", 0>>, c, SlowAfterFailure(slow),
                   1, Timeout(c, url), net)
    ELSE Done("return", ResponseData(net), urlsave(c, t, url, ResponseData(net)),
              FALSE, 1, Timeout(c, url), net)

\* The download part of urlopen: the live request and what follows it.
\* After a transport failure with a cache entry the except clause falls
\* through to `request.status_code` with `request` never bound, which raises
\* UnboundLocalError.
Download(c, slow, t, url, net) ==
    IF net.kind = "exc"
    THEN IF url \in DOMAIN c
         THEN Done("raise", <<"UnboundLocalError", 0>>, c, SlowAfterFailure(slow),
                   1, Timeout(c, url), net)
         ELSE Done("raise", <<"TransportError", 0>>, c, SlowAfterFailure(slow),
                   1, Timeout(c, url), net)
    ELSE Done("return", ResponseData(net), urlsave(c, t, url, ResponseData(net)),
              slow, 1, Timeout(c, url), net)

\* cache.sync() is called by urlsave alone, after the entry is put: the file
\* holds the shelve as the call leaves it when the request was answered,
\* and is left as it was by every other call.
Synced(d, r) == IF r.net.kind = "resp" THEN r.cache ELSE d

\* urlopen(url, refresh=refresh, expires=expires) in cache c, with the flag
\* slow, at time t; net is the outcome of the live request if one is issued.
urlopen(c, slow, t, url, refresh, expires, net) ==
    LET cdate == CacheGet(c, url)[1]
        data == CacheGet(c, url)[2]
    IN  IF refresh THEN Download(c, slow, t, url, net)
        ELSE IF CachedError(refresh, data)
        THEN Done("raise", <<"RuntimeError", data[2]>>, c, slow, 0, 0, NoRequest)
        ELSE IF ~IsNone(data) /\ NoFreshnessCheck(expires, slow)
        THEN Done("return", data, c, slow, 0, 0, NoRequest)
        ELSE IF ~IsNone(data) /\ IsFresh(t, cdate, expires)
        THEN Done("return", data, c, slow, 0, 0, NoRequest)
        ELSE Download(c, slow, t, url, net)

\* etree.fromstring(data, parser=parser): the lenient parser makes a tree of
\* any text; data that is no text (a status code) is a TypeError.
fromstring(data) ==
    IF data[1] = "str" THEN [out |-> "return", value |-> <<"doc", data[2]>>]
    ELSE [out |-> "raise", value |-> <<"TypeError", 0>>]

\* htmlopen(url, ...): urlopen, then the parse of what it returned.
htmlopen(c, slow, t, url, refresh, expires, net) ==
    LET r == urlopen(c, slow, t, url, refresh, expires, net)
    IN  IF r.out = "raise" THEN r
        ELSE [r EXCEPT !.out = fromstring(r.value).out,
                       !.value = fromstring(r.value).value]

\* urlrefresh(url, ...): del cache[url] (a KeyError when the url is not
\* stored), then urlopen; the value of urlopen is dropped.
urlrefresh(c, slow, t, url, refresh, expires, net) ==
    IF url \notin DOMAIN c
    THEN Done("raise", <<"KeyError", url>>, c, slow, 0, 0, NoRequest)
    ELSE LET r == urlopen(CacheDel(c, url), slow, t, url, refresh, expires, net)
         IN  IF r.out = "raise" THEN r ELSE [r EXCEPT !.value = None]

(* --------------------------- the call history ------------------------ *)
NoCall == [op |-> "none"]

\* urlopen(url) with the default arguments (no refresh, no expiry).
Plain(l) == l.op = "urlopen" /\ ~l.refresh /\ IsNone(l.expires)

\* When a plain urlopen(url) directly follows a plain urlopen of the same
\* url, `prior` keeps of the first of the two its number of requests, how it
\* ended and its value.
NoPrior == <<0, "none", None>>
Prior(op, url, refresh, expires) ==
    IF /\ op = "urlopen" /\ ~refresh /\ IsNone(expires)
       /\ Plain(last) /\ last.url = url
    THEN <<last.req, last.out, last.value>>
    ELSE NoPrior

\* When the call directly follows a run of main that removed the cache file,
\* `cleared` keeps the urls that were stored before that run.
Cleared == IF last.op = "main" /\ last.unlinked THEN last.stored ELSE {}

\* The record of a completed call: its arguments, the state it saw (the
\* entry of its url, the flag, the clock) and what it did.
Call(op, url, refresh, expires, r) ==
    [op |-> op, url |-> url, refresh |-> refresh, expires |-> expires,
     before |-> CacheGet(cache, url), had |-> url \in DOMAIN cache,
     slow |-> INTERNET_SLOW, at |-> now,
     out |-> r.out, value |-> r.value, req |-> r.req,
     timeout |-> r.timeout, net |-> r.net,
     prior |-> Prior(op, url, refresh, expires),
     cleared |-> Cleared]

\* A call needs a network outcome only when it issues a request: the
\* outcomes offered to a call answered from the cache are one and the same.
Offered(url, r0) == IF r0.req = 0 THEN {NetFail} ELSE FetchOutcomes(url)

Apply(op, url, refresh, expires, r) ==
    /\ cache' = r.cache
    /\ disk' = Synced(disk, r)
    /\ INTERNET_SLOW' = r.slow
    /\ last' = Call(op, url, refresh, expires, r)
    /\ UNCHANGED <<now, pagvars, fnvars, gradervars>>

(* ------------------------------ actions ------------------------------ *)
UrlOpen ==
    /\ pc = "idle"
    /\ \E url \in FetchUrls, refresh \in BOOLEAN, expires \in ExpiresValues :
         \E net \in Offered(url, urlopen(cache, INTERNET_SLOW, now, url, refresh, expires, NetFail)) :
            Apply("urlopen", url, refresh, expires,
                  urlopen(cache, INTERNET_SLOW, now, url, refresh, expires, net))

HtmlOpen ==
    /\ pc = "idle"
    /\ \E url \in FetchUrls, refresh \in {FALSE}, expires \in ExpiresValues :
         \E net \in Offered(url, htmlopen(cache, INTERNET_SLOW, now, url, refresh, expires, NetFail)) :
            Apply("htmlopen", url, refresh, expires,
                  htmlopen(cache, INTERNET_SLOW, now, url, refresh, expires, net))

UrlRefresh ==
    /\ pc = "idle"
    /\ \E url \in FetchUrls :
         \E net \in Offered(url, urlrefresh(cache, INTERNET_SLOW, now, url, FALSE, None, NetFail)) :
            Apply("urlrefresh", url, FALSE, None,
                  urlrefresh(cache, INTERNET_SLOW, now, url, FALSE, None, net))

\* Time passes between two calls.
Tick ==
    /\ now + TickMinutes <= MaxTicks * TickMinutes
    /\ now' = now + TickMinutes
    /\ UNCHANGED <<cache, disk, INTERNET_SLOW, last, pagvars, fnvars, gradervars>>

EmptyCache == [u \in {} |-> <<None, None>>]

\* No function call is under way.
NoArg == [fn |-> "none"]
NoRet == [out |-> "none", value |-> None]

\* No Grader is at work.
NoData == <<>>
NoFiles == [report |-> 0, bak |-> <<>>]

Init ==
    /\ cache = EmptyCache
    /\ INTERNET_SLOW = FALSE
    /\ now = 0
    /\ last = NoCall
    /\ pc = "idle"
    /\ i = 0
    /\ refreshed = {}
    /\ problems = <<>>
    /\ exc = None
    /\ trace = <<>>
    /\ arg = NoArg
    /\ ret = NoRet
    /\ disk = cache
    /\ grades = NoData
    /\ files = NoFiles

Next == UrlOpen \/ HtmlOpen \/ UrlRefresh \/ Tick

Spec == Init /\ [][Next]_vars

(* ------------------------- get_public_problems ----------------------- *)
\* The documents of the model. A <tr> is its number of cells and its first
\* cell (0: the empty string); a data row has the seven cells of a Problem
\* and is identified by its first cell, the problem id.
Variant(text) == text % 10
PageOf(text) == text \div 10
DataRow(id) == [len |-> 7, first |-> id]
EmptyRow == [len |-> 7, first |-> 0]
SingleCell == [len |-> 1, first |-> 1]

\* html.xpath('//table/tbody'): variant 4 is a page without a table.
HasTable(text) == Variant(text) # 4

\* The rows of the <tbody> of a document:
\*   variant 1: a full page of PAGE_SIZE data rows;
\*   variant 2: two data rows, then padding rows with empty cells;
\*   variant 3: one data row, a single-cell row, and a data row after it.
Tbody(text) ==
    CASE Variant(text) = 1 ->
           [k \in 1..PAGE_SIZE |-> DataRow(PageOf(text) * 100 + k)]
      [] Variant(text) = 2 ->
           <<DataRow(PageOf(text) * 100 + 51), DataRow(PageOf(text) * 100 + 52),
             EmptyRow, EmptyRow>>
      [] Variant(text) = 3 ->
           <<DataRow(PageOf(text) * 100 + 61), SingleCell,
             DataRow(PageOf(text) * 100 + 62)>>
      [] OTHER -> <<>>

\* Mutant of StopRow: only an empty first cell ends the rows.
StopRow_emptyonly(tr) == tr.first = 0

\* if not data[0] or len(data) == 1: break
StopRow(tr) == tr.first = 0 \/ tr.len = 1

\* Problem(*data), identified by data[0] = int(data[0])
Problem(tr) == tr.first

\* for tr in tbody: ... transaction.append(problem)
RECURSIVE Transaction(_, _)
Transaction(tbody, acc) ==
    IF tbody = <<>> THEN acc
    ELSE IF StopRow(Head(tbody)) THEN acc
    ELSE Transaction(Tail(tbody), Append(acc, Problem(Head(tbody))))

\* if len(transaction) == 28
PageFull(transaction) == Len(transaction) = PAGE_SIZE

\* except RuntimeError as ex: if ex.args[0] == 404: break
IsNotFound(e) == e[1] = "RuntimeError" /\ e[2] = NOT_FOUND

\* Mutant of LoadStep: the rows of a page are put before the rows collected
\* so far.
LoadStep_prepends(p, seen, probs, r) ==
    IF r.out = "raise"
    THEN IF IsNotFound(r.value)
         THEN [pc |-> "done", problems |-> probs, exc |-> None]
         ELSE [pc |-> "raised", problems |-> probs, exc |-> r.value]
    ELSE IF ~HasTable(r.value[2])
    THEN [pc |-> "raised", problems |-> probs, exc |-> <<"IndexError", 0>>]
    ELSE IF PageFull(Transaction(Tbody(r.value[2]), <<>>))
    THEN [pc |-> "load", exc |-> None,
          problems |-> Transaction(Tbody(r.value[2]), <<>>) \o probs]
    ELSE IF urlbase(p) \notin seen
    THEN [pc |-> "refresh", problems |-> probs, exc |-> None]
    ELSE [pc |-> "done", exc |-> None,
          problems |-> Transaction(Tbody(r.value[2]), <<>>) \o probs]

\* Mutant of LoadStep: a short page is refreshed whether or not its url is
\* in refreshed.
LoadStep_norecall(p, seen, probs, r) ==
    IF r.out = "raise"
    THEN IF IsNotFound(r.value)
         THEN [pc |-> "done", problems |-> probs, exc |-> None]
         ELSE [pc |-> "raised", problems |-> probs, exc |-> r.value]
    ELSE IF ~HasTable(r.value[2])
    THEN [pc |-> "raised", problems |-> probs, exc |-> <<"IndexError", 0>>]
    ELSE IF PageFull(Transaction(Tbody(r.value[2]), <<>>))
    THEN [pc |-> "load", exc |-> None,
          problems |-> probs \o Transaction(Tbody(r.value[2]), <<>>)]
    ELSE [pc |-> "refresh", problems |-> probs, exc |-> None]

\* Mutant of LoadStep: a 404 does not end the loop.
LoadStep_skips404(p, seen, probs, r) ==
    IF r.out = "raise"
    THEN IF IsNotFound(r.value)
         THEN [pc |-> "load", problems |-> probs, exc |-> None]
         ELSE [pc |-> "raised", problems |-> probs, exc |-> r.value]
    ELSE IF ~HasTable(r.value[2])
    THEN [pc |-> "raised", problems |-> probs, exc |-> <<"IndexError", 0>>]
    ELSE IF PageFull(Transaction(Tbody(r.value[2]), <<>>))
    THEN [pc |-> "load", exc |-> None,
          problems |-> probs \o Transaction(Tbody(r.value[2]), <<>>)]
    ELSE IF urlbase(p) \notin seen
    THEN [pc |-> "refresh", problems |-> probs, exc |-> None]
    ELSE [pc |-> "done", exc |-> None,
          problems |-> probs \o Transaction(Tbody(r.value[2]), <<>>)]

\* One pass of the loop up to the refresh call: r is what htmlopen did for
\* page p. Gives the next position, the problems and the exception if any.
LoadStep(p, seen, probs, r) ==
    IF r.out = "raise"
    THEN IF IsNotFound(r.value)
         THEN [pc |-> "done", problems |-> probs, exc |-> None]
         ELSE [pc |-> "raised", problems |-> probs, exc |-> r.value]
    ELSE IF ~HasTable(r.value[2])
    THEN [pc |-> "raised", problems |-> probs, exc |-> <<"IndexError", 0>>]
    ELSE IF PageFull(Transaction(Tbody(r.value[2]), <<>>))
    THEN [pc |-> "load", exc |-> None,
          problems |-> probs \o Transaction(Tbody(r.value[2]), <<>>)]
    ELSE IF urlbase(p) \notin seen
    THEN [pc |-> "refresh", problems |-> probs, exc |-> None]
    ELSE [pc |-> "done", exc |-> None,
          problems |-> probs \o Transaction(Tbody(r.value[2]), <<>>)]

\* Mutant of RefreshStep: the url is not added to refreshed.
RefreshStep_forgets(p, seen, r) ==
    IF r.out = "raise"
    THEN [pc |-> "raised", i |-> p, refreshed |-> seen, exc |-> r.value]
    ELSE [pc |-> "load", i |-> p - 1, refreshed |-> seen, exc |-> None]

\* The refresh branch: r is what urlopen(url, expires=120) did for page p.
\* Gives the next position, i, refreshed and the exception if any.
RefreshStep(p, seen, r) ==
    IF r.out = "raise"
    THEN [pc |-> "raised", i |-> p, refreshed |-> seen, exc |-> r.value]
    ELSE [pc |-> "load", i |-> p - 1, refreshed |-> seen \cup {urlbase(p)},
          exc |-> None]

Event(ev, p, r) ==
    [ev |-> ev, page |-> p, req |-> r.req, net |-> r.net,
     out |-> r.out, value |-> r.value]

OfferedPag(url, r0) == IF r0.req = 0 THEN {NetFail} ELSE NetOutcomes(url)

\* get_public_problems(profile) is called.
PagStart ==
    /\ pc = "idle"
    /\ pc' = "load"
    /\ i' = 0
    /\ refreshed' = {}
    /\ problems' = <<>>
    /\ exc' = None
    /\ trace' = <<>>
    /\ last' = NoCall
    /\ UNCHANGED <<cache, disk, INTERNET_SLOW, now, fnvars, gradervars>>

\* i += 1; htmlopen(url); the table; the branch on len(transaction).
PageLoad ==
    /\ pc = "load"
    /\ i + 1 <= MaxPage
    /\ \E net \in OfferedPag(urlbase(i + 1),
                    htmlopen(cache, INTERNET_SLOW, now, urlbase(i + 1), FALSE, None, NetFail)) :
         LET r == htmlopen(cache, INTERNET_SLOW, now, urlbase(i + 1), FALSE, None, net)
             s == LoadStep(i + 1, refreshed, problems, r)
         IN  /\ cache' = r.cache
             /\ disk' = Synced(disk, r)
             /\ INTERNET_SLOW' = r.slow
             /\ i' = i + 1
             /\ pc' = s.pc
             /\ problems' = s.problems
             /\ exc' = s.exc
             /\ trace' = Append(trace, Event("load", i + 1, r))
             /\ last' = Call("htmlopen", urlbase(i + 1), FALSE, None, r)
    /\ UNCHANGED <<now, refreshed, fnvars, gradervars>>

\* urlopen(url, expires=120); refreshed.add(url); i -= 1
PageRefresh ==
    /\ pc = "refresh"
    /\ \E net \in OfferedPag(urlbase(i),
                    urlopen(cache, INTERNET_SLOW, now, urlbase(i), FALSE, PyInt(REFRESH_EXPIRES), NetFail)) :
         LET r == urlopen(cache, INTERNET_SLOW, now, urlbase(i), FALSE, PyInt(REFRESH_EXPIRES), net)
             s == RefreshStep(i, refreshed, r)
         IN  /\ cache' = r.cache
             /\ disk' = Synced(disk, r)
             /\ INTERNET_SLOW' = r.slow
             /\ i' = s.i
             /\ pc' = s.pc
             /\ refreshed' = s.refreshed
             /\ exc' = s.exc
             /\ trace' = Append(trace, Event("refresh", i, r))
             /\ last' = Call("urlopen", urlbase(i), FALSE, PyInt(REFRESH_EXPIRES), r)
    /\ UNCHANGED <<now, problems, fnvars, gradervars>>

\* The cache file as earlier runs of the program left it: any urls stored,
\* each with a text or a status code saved at the start of this run.
InitPag ==
    /\ \E S \in SUBSET URLS :
         \E f \in [S -> FetchVariants \cup (StatusCodes \ {HTTP_OK})] :
            cache = [u \in S |-> <<PyDate(0),
                        IF f[u] \in FetchVariants THEN PyStr(TextOf(u, f[u])) ELSE PyInt(f[u])>>]
    /\ INTERNET_SLOW = FALSE
    /\ now = 0
    /\ last = NoCall
    /\ pc = "idle"
    /\ i = 0
    /\ refreshed = {}
    /\ problems = <<>>
    /\ exc = None
    /\ trace = <<>>
    /\ arg = NoArg
    /\ ret = NoRet
    /\ disk = cache
    /\ grades = NoData
    /\ files = NoFiles

NextPag == PagStart \/ PageLoad \/ PageRefresh \/ Tick

SpecPag == InitPag /\ [][NextPag]_vars

\* A pass of the loop is taken (i += 1 and the branch on the page), and the
\* refresh branch is taken. On the steps of NextPag these are PageLoad and
\* PageRefresh, told by pc and i alone.
LoadTaken ==
    /\ pc = "load"
    /\ i + 1 <= MaxPage
    /\ i' = i + 1
    /\ pc' \in {"load", "refresh", "done", "raised"}

RefreshTaken == pc = "refresh" /\ pc' \in {"load", "raised"}

\* The paginator with its steps taken whenever they can be: the loop is
\* sequential code and every request it waits for ends, by an answer or by
\* the timeout of 10 or 30 seconds.
SpecPagFair ==
    InitPag /\ [][NextPag]_vars /\ WF_<<pc, i>>(LoadTaken) /\ WF_pc(RefreshTaken)

\* The calls on the cache and the paginator in one process.
NextAll == UrlOpen \/ HtmlOpen \/ UrlRefresh \/ Tick \/ PagStart \/ PageLoad \/ PageRefresh

SpecAll == Init /\ [][NextAll]_vars

(* ------------------------- Discipline.progress ----------------------- *)
\* The progress table as parsed from the page: of each student row the
\* class attributes of the cells row[1:-1], in order.
MaxRows == 2
ColumnCounts == {0, 1, 2}
CellClasses == {"void", "tried", "solved", "wrong"}

NaN == <<"float", "nan">>
SCORE_TRIED == 0
SCORE_SOLVED == 100

Returned(v) == [out |-> "return", value |-> v]
Raised(e) == [out |-> "raise", value |-> e]

\* The value one cell contributes, or the error it raises.
CellValue_default(class) ==
    IF class = "void" THEN Returned(NaN)
    ELSE IF class = "solved" THEN Returned(PyInt(SCORE_SOLVED))
    ELSE Returned(PyInt(SCORE_TRIED))

CellValue(class) ==
    IF class = "void" THEN Returned(NaN)
    ELSE IF class = "tried" THEN Returned(PyInt(SCORE_TRIED))
    ELSE IF class = "solved" THEN Returned(PyInt(SCORE_SOLVED))
    ELSE Raised(<<"RuntimeError", 0>>)

\* for x in row[1:-1]: ...; response.append(value)
RECURSIVE Response(_, _)
Response(cells, response) ==
    IF cells = <<>> THEN Returned(response)
    ELSE LET v == CellValue(Head(cells))
         IN  IF v.out = "raise" THEN v
             ELSE Response(Tail(cells), Append(response, v.value))

\* for row in table[1:]: ...; responses.append(response)
RECURSIVE Responses(_, _)
Responses(rows, responses) ==
    IF rows = <<>> THEN Returned(responses)
    ELSE LET r == Response(Head(rows), <<>>)
         IN  IF r.out = "raise" THEN r
             ELSE Responses(Tail(rows), Append(responses, r.value))

\* The tables of at most MaxRows student rows, all rows of one length.
Tables ==
    UNION {UNION {[1..n -> [1..m -> CellClasses]] : n \in 0..MaxRows} : m \in ColumnCounts}

\* progress(homework) reaches "Get responses" with the table parsed.
Progress ==
    /\ arg.fn = "progress"
    /\ ret.out = "none"
    /\ ret' = Responses(arg.table, <<>>)
    /\ UNCHANGED <<cache, disk, INTERNET_SLOW, now, last, pagvars, arg, gradervars>>

InitProgress ==
    /\ cache = EmptyCache
    /\ INTERNET_SLOW = FALSE
    /\ now = 0
    /\ last = NoCall
    /\ pc = "idle"
    /\ i = 0
    /\ refreshed = {}
    /\ problems = <<>>
    /\ exc = None
    /\ trace = <<>>
    /\ arg \in {[fn |-> "progress", table |-> t] : t \in Tables}
    /\ ret = NoRet
    /\ disk = cache
    /\ grades = NoData
    /\ files = NoFiles

SpecProgress == InitProgress /\ [][Progress]_vars

(* ------------------------------ __main__ ----------------------------- *)
\* sys.argv: whether '--clear' and '-c' are among the arguments, and the
\* subcommand given ("none" when there is none).
Commands == {"grade", "compile", "uri-academic"}
Argvs == [long : BOOLEAN, short : BOOLEAN, command : Commands \cup {"none"}]

\* if os.path.exists(config.urlcache): os.unlink(config.urlcache)
Unlink_kept(c) == c

Unlink(c) == EmptyCache

\* main(): what becomes of the cache file, and the subcommand that is run
\* ("none" when main returns or prints the usage) with the urls the cache
\* holds when it starts.
main(c, argv) ==
    IF argv.long
    THEN [cache |-> Unlink(c), unlinked |-> TRUE, ran |-> "none", seen |-> {}]
    ELSE IF argv.command \in Commands
    THEN [cache |-> c, unlinked |-> FALSE, ran |-> argv.command, seen |-> DOMAIN c]
    ELSE [cache |-> c, unlinked |-> FALSE, ran |-> "none", seen |-> {}]

\* The program is run from the command line, as a new process.
Main ==
    /\ pc = "idle"
    /\ \E argv \in Argvs :
         LET r == main(cache, argv)
         IN  /\ cache' = r.cache
             /\ disk' = r.cache
             /\ last' = [op |-> "main", argv |-> argv, stored |-> DOMAIN cache,
                         unlinked |-> r.unlinked, ran |-> r.ran, seen |-> r.seen]
    /\ INTERNET_SLOW' = FALSE
    /\ UNCHANGED <<now, pagvars, fnvars, gradervars>>

NextMain == UrlOpen \/ HtmlOpen \/ UrlRefresh \/ Tick \/ Main

SpecMain == Init /\ [][NextMain]_vars

(* --------------- normalize_language and filter_problems -------------- *)
MaxProblems == 2

\* The aliases dict of normalize_language.
aliases ==
    ("Python" :> "Python") @@ ("python" :> "Python") @@ ("py" :> "Python") @@
    ("python2" :> "Python") @@ ("Python2" :> "Python") @@ ("py2" :> "Python") @@
    ("Python 3" :> "Python 3") @@ ("python3" :> "Python 3") @@
    ("py3" :> "Python 3") @@ ("Python3" :> "Python 3") @@
    ("C" :> "C") @@ ("c" :> "C") @@
    ("C++" :> "C++") @@ ("cpp" :> "C++") @@ ("Cpp" :> "C++") @@ ("c++" :> "C++") @@
    ("Java" :> "Java") @@ ("java" :> "Java")

\* The language labels of the site, as they stand in Problem.lang.
Labels == {aliases[a] : a \in DOMAIN aliases}

\* normalize_language(lang): the alias is looked up and bound to the local
\* name lang; the function has no return statement, so a call that does not
\* raise returns None.
normalize_language(lang) ==
    IF lang[2] \in DOMAIN aliases
    THEN LET label == aliases[lang[2]] IN Returned(None)
    ELSE Raised(<<"SystemExit", lang[2]>>)

\* if lang: (None and the empty string are false)
Truthy(x) == ~IsNone(x) /\ x # PyStr("")

\* [p for p in problems if <test>]
ByLang(ps, lang) == SelectSeq(ps, LAMBDA p : p.lang = lang)
ByIds(ps, ids) == SelectSeq(ps, LAMBDA p : p.id \in ids)

\* filter_problems(problems, lang, ids), maxdate and mindate left at None.
filter_problems(ps, lang, ids) ==
    LET n == IF Truthy(lang) THEN normalize_language(lang) ELSE Returned(lang)
    IN  IF n.out = "raise" THEN n
        ELSE LET p1 == IF Truthy(lang) THEN ByLang(ps, n.value) ELSE ps
                 p2 == IF ids # {} THEN ByIds(p1, ids) ELSE p1
             IN  Returned(p2)

\* The arguments of the model: the aliases, a language that is none of
\* them, the empty string and None; problem lists of at most MaxProblems
\* problems, the k-th with id k.
LangInputs == {PyStr(a) : a \in DOMAIN aliases} \cup {PyStr("rust")}
LangOptions == LangInputs \cup {PyStr(""), None}
ProblemLists ==
    UNION {{[k \in 1..n |-> [id |-> k, lang |-> PyStr(f[k])]] : f \in [1..n -> Labels]}
              : n \in 0..MaxProblems}
IdsOptions == {{}, {1}}

NormalizeLanguage ==
    /\ arg.fn = "normalize_language"
    /\ ret.out = "none"
    /\ ret' = normalize_language(arg.lang)
    /\ UNCHANGED <<cache, disk, INTERNET_SLOW, now, last, pagvars, arg, gradervars>>

FilterProblems ==
    /\ arg.fn = "filter_problems"
    /\ ret.out = "none"
    /\ ret' = filter_problems(arg.problems, arg.lang, arg.ids)
    /\ UNCHANGED <<cache, disk, INTERNET_SLOW, now, last, pagvars, arg, gradervars>>

InitLang ==
    /\ cache = EmptyCache
    /\ INTERNET_SLOW = FALSE
    /\ now = 0
    /\ last = NoCall
    /\ pc = "idle"
    /\ i = 0
    /\ refreshed = {}
    /\ problems = <<>>
    /\ exc = None
    /\ trace = <<>>
    /\ arg \in {[fn |-> "normalize_language", lang |-> l] : l \in LangInputs}
            \cup {[fn |-> "filter_problems", problems |-> ps, lang |-> l, ids |-> s] :
                     ps \in ProblemLists, l \in LangOptions, s \in IdsOptions}
    /\ ret = NoRet
    /\ disk = cache
    /\ grades = NoData
    /\ files = NoFiles

NextLang == NormalizeLanguage \/ FilterProblems

SpecLang == InitLang /\ [][NextLang]_vars

(* ---------------------- the rows of a profile page ------------------- *)
\* The <tbody> elements row extraction is applied to: every sequence of at
\* most MaxTr rows, each a data row, a row with an empty first cell or a
\* single-cell row; and the full page with one of its rows replaced by a
\* row of the last two kinds.
MaxTr == 3
TrKinds == {DataRow(1), DataRow(2), EmptyRow, SingleCell}
FullTbody == [k \in 1..PAGE_SIZE |-> DataRow(k)]
Tbodies ==
    UNION {[1..n -> TrKinds] : n \in 0..MaxTr}
        \cup {FullTbody}
        \cup {[FullTbody EXCEPT ![k] = tr] : k \in 1..PAGE_SIZE, tr \in {EmptyRow, SingleCell}}

\* The row loop of one pass, and the test on len(transaction).
ExtractRows ==
    /\ arg.fn = "rows"
    /\ ret.out = "none"
    /\ ret' = LET transaction == Transaction(arg.tbody, <<>>)
              IN  Returned([transaction |-> transaction, full |-> PageFull(transaction)])
    /\ UNCHANGED <<cache, disk, INTERNET_SLOW, now, last, pagvars, arg, gradervars>>

InitRows ==
    /\ cache = EmptyCache
    /\ INTERNET_SLOW = FALSE
    /\ now = 0
    /\ last = NoCall
    /\ pc = "idle"
    /\ i = 0
    /\ refreshed = {}
    /\ problems = <<>>
    /\ exc = None
    /\ trace = <<>>
    /\ arg \in {[fn |-> "rows", tbody |-> tb] : tb \in Tbodies}
    /\ ret = NoRet
    /\ disk = cache
    /\ grades = NoData
    /\ files = NoFiles

SpecRows == InitRows /\ [][ExtractRows]_vars

(* ------------------ Discipline.progress: valid header ---------------- *)
\* The header row of the progress table is the name cell, the cells of the
\* questions (the text of each a question id or the sentinel '-') and the
\* total cell. The responses are the rows built before, one value for
\* every cell between the first and the last of the row.
MaxQuestions == 3
HeaderTexts == {"1", "2", "-"}
Headers ==
    UNION {{<<"name">> \o h \o <<"total">> : h \in [1..m -> HeaderTexts]} : m \in 0..MaxQuestions}
ResponsesFor(header, n) == [r \in 1..n |-> [c \in 1..(Len(header) - 2) |-> 10 * r + c]]

\* int(x.text_content()) for the texts of the model; any other text raises.
ToInt == ("1" :> 1) @@ ("2" :> 2)
question_to_name == (1 :> "first") @@ (2 :> "second")

\* Mutant of valid_cols: the name and total cells are not taken off.
valid_cols_all(header) ==
    Len(header) - Cardinality({k \in 1..Len(header) : header[k] = "-"})

\* valid_cols = len(header) - sum(x.text_content() == '-' for x in header);
\* valid_cols -= 2
valid_cols(header) ==
    Len(header) - Cardinality({k \in 1..Len(header) : header[k] = "-"}) - 2

\* header = [int(x.text_content()) for x in header[1:valid_cols + 1]] and
\* the '%s (%s)' labels made of them.
ValidHeader(header) ==
    LET cells == SubSeq(header, 2, valid_cols(header) + 1)
    IN  IF \E k \in 1..Len(cells) : cells[k] \notin DOMAIN ToInt
        THEN Raised(<<"ValueError", 0>>)
        ELSE Returned([k \in 1..Len(cells) |->
                          <<ToInt[cells[k]], question_to_name[ToInt[cells[k]]]>>])

\* responses = [row[:valid_cols] for row in responses]
CutRow(row, n) == SubSeq(row, 1, IF n < Len(row) THEN n ELSE Len(row))
CutRows(responses, n) == [r \in 1..Len(responses) |-> CutRow(responses[r], n)]

\* progress(homework) from "Valid header" on.
ProgressColumns ==
    /\ arg.fn = "columns"
    /\ ret.out = "none"
    /\ ret' = LET h == ValidHeader(arg.header)
              IN  IF h.out = "raise" THEN h
                  ELSE Returned([columns |-> h.value,
                                 rows |-> CutRows(arg.responses, valid_cols(arg.header))])
    /\ UNCHANGED <<cache, disk, INTERNET_SLOW, now, last, pagvars, arg, gradervars>>

InitColumns ==
    /\ cache = EmptyCache
    /\ INTERNET_SLOW = FALSE
    /\ now = 0
    /\ last = NoCall
    /\ pc = "idle"
    /\ i = 0
    /\ refreshed = {}
    /\ problems = <<>>
    /\ exc = None
    /\ trace = <<>>
    /\ arg \in {[fn |-> "columns", header |-> h, responses |-> ResponsesFor(h, n)] :
                   h \in Headers, n \in 0..MaxRows}
    /\ ret = NoRet
    /\ disk = cache
    /\ grades = NoData
    /\ files = NoFiles

SpecColumns == InitColumns /\ [][ProgressColumns]_vars

(* --------------- Discipline.progress: the pages it opens ------------- *)
\* url % homework and urldetail % homework for the homework asked for.
ProgressUrl == 1
DetailUrl == 2

\* The deadline written on the progress page at 23:59:59 of its day, in
\* minutes of the clock: over at the first advance, or not over in the run.
Deadlines == {0, MaxTicks * TickMinutes}

\* urldate(url): the date stored with the url.
urldate(c, url) == IF url \in DOMAIN c THEN c[url][1] ELSE None

\* Discipline.__htmlopen(url, **kwds): htmlopen(url, **kwds), with the
\* session when the url is not stored. htmlopen hands **kwds to urlopen,
\* whose parameters are refresh and expires; every other keyword goes on to
\* session.get, which raises TypeError on a keyword it does not have.
Forwarded(kwds) == kwds \ {"refresh", "expires"}
KeywordNet(kwds, net) == IF Forwarded(kwds) = {} THEN net ELSE NetFail
Expires(kwds) == IF "expires" \in kwds THEN PyInt(REFRESH_EXPIRES) ELSE None
Discipline_htmlopen(c, slow, t, url, kwds, net) ==
    htmlopen(c, slow, t, url, FALSE, Expires(kwds), KeywordNet(kwds, net))

\* The keywords of the reloads of progress (the other calls give none).
ReloadKwds == {"expire"}

\* One call of __htmlopen within progress: the cache and the flag change as
\* htmlopen leaves them, and the call is recorded.
OpenPage(ev, url, kwds, next) ==
    \E net \in OfferedPag(url, Discipline_htmlopen(cache, INTERNET_SLOW, now, url, kwds, NetFail)) :
       LET r == Discipline_htmlopen(cache, INTERNET_SLOW, now, url, kwds, net)
       IN  /\ cache' = r.cache
           /\ disk' = Synced(disk, r)
           /\ INTERNET_SLOW' = r.slow
           /\ last' = Call("htmlopen", url, FALSE, Expires(kwds), r)
           /\ trace' = Append(IF ev = "open" /\ url = ProgressUrl THEN <<>> ELSE trace,
                              Event(ev, url, r))
           /\ exc' = IF r.out = "raise" THEN r.value ELSE None
           /\ pc' = IF r.out = "raise" THEN "raised" ELSE next

\* progress(homework) is called: data = self.__htmlopen(url % homework).
ProgressOpen ==
    /\ pc \in {"idle", "done", "raised"}
    /\ \E d \in Deadlines : arg' = [fn |-> "progress", deadline |-> d]
    /\ OpenPage("open", ProgressUrl, {}, "details")
    /\ UNCHANGED <<now, i, refreshed, problems, ret, gradervars>>

\* details = self.__htmlopen(urldetail % homework), then the test
\* was_loaded <= deadline on the date stored with the progress page.
AfterDetails ==
    IF urldate(cache, ProgressUrl)[2] <= arg.deadline THEN "reload" ELSE "done"
ProgressDetails ==
    /\ pc = "details"
    /\ OpenPage("open", DetailUrl, {}, AfterDetails)
    /\ UNCHANGED <<now, i, refreshed, problems, arg, ret, gradervars>>

\* data = self.__htmlopen(url % homework, expire=120)
ProgressReload ==
    /\ pc = "reload"
    /\ OpenPage("reload", ProgressUrl, ReloadKwds, "reload_details")
    /\ UNCHANGED <<now, i, refreshed, problems, arg, ret, gradervars>>

\* details = self.__htmlopen(urldetail % homework, expire=120); the pages
\* are then read (see Progress and ProgressColumns).
ProgressReloadDetails ==
    /\ pc = "reload_details"
    /\ OpenPage("reload", DetailUrl, ReloadKwds, "done")
    /\ UNCHANGED <<now, i, refreshed, problems, arg, ret, gradervars>>

\* The cache file holds, of the two pages, what earlier runs left in it.
InitOpen ==
    /\ \E S \in SUBSET {ProgressUrl, DetailUrl} :
         \E f \in [S -> FetchVariants \cup (StatusCodes \ {HTTP_OK})] :
            cache = [u \in S |-> <<PyDate(0),
                        IF f[u] \in FetchVariants THEN PyStr(TextOf(u, f[u])) ELSE PyInt(f[u])>>]
    /\ INTERNET_SLOW = FALSE
    /\ now = 0
    /\ last = NoCall
    /\ pc = "idle"
    /\ i = 0
    /\ refreshed = {}
    /\ problems = <<>>
    /\ exc = None
    /\ trace = <<>>
    /\ arg = NoArg
    /\ ret = NoRet
    /\ disk = cache
    /\ grades = NoData
    /\ files = NoFiles

NextOpen ==
    ProgressOpen \/ ProgressDetails \/ ProgressReload \/ ProgressReloadDetails \/ Tick

SpecOpen == InitOpen /\ [][NextOpen]_vars

(* -------------------------------- Grader ----------------------------- *)
MaxChars == 2

\* What the user types at a prompt: a line of at most MaxChars characters.
Chars == {"0", "7", ".", "x"}
Lines == UNION {[1..n -> Chars] : n \in 0..MaxChars}

\* The lines typed at 'Grade ...: ' and at 'Bad value, try again: '; input()
\* raises EOFError when the lines are used up.
Typed == Lines \X Lines

Students == {"ann", "bob"}

\* decimal.Decimal(x): a Decimal is kept; a text is converted when it is an
\* optional point among digits, with one digit at least, and raises
\* InvalidOperation otherwise. A Decimal is <<coefficient, exponent>>.
IsDigit(ch) == ch \in {"0", "7"}
Points(s) == {k \in 1..Len(s) : s[k] = "."}
ValidDecimal(s) ==
    /\ \A k \in 1..Len(s) : IsDigit(s[k]) \/ s[k] = "."
    /\ Cardinality(Points(s)) <= 1
    /\ \E k \in 1..Len(s) : IsDigit(s[k])
RECURSIVE Coefficient(_)
Coefficient(s) ==
    IF s = <<>> THEN 0
    ELSE LET front == Coefficient(SubSeq(s, 1, Len(s) - 1))
         IN  IF s[Len(s)] = "7" THEN front * 10 + 7
             ELSE IF s[Len(s)] = "0" THEN front * 10
             ELSE front
Exponent(s) ==
    IF Points(s) = {} THEN 0 ELSE (CHOOSE k \in Points(s) : TRUE) - Len(s)
Decimal(x) ==
    IF x[1] = "Decimal" THEN Returned(x)
    ELSE IF ValidDecimal(x[2])
    THEN Returned(<<"Decimal", <<Coefficient(x[2]), Exponent(x[2])>>>>)
    ELSE Raised(<<"InvalidOperation", 0>>)

\* The validator made by __auto_validate_grade: Decimal(x), with ValueError
\* turned into ValidationError (Decimal raises no ValueError for a text).
validate_grade(x) == Decimal(x)

\* bool(value) of a Decimal: false for a zero.
DecimalBool(v) == v[2][1] # 0

\* The try/except loop of get_value, with the lines left to read.
RECURSIVE Retry(_, _)
Retry(value, lines) ==
    LET r == validate_grade(value)
    IN  IF r.out = "return" THEN r
        ELSE IF r.value[1] \notin {"InvalidOperation", "ValidationError"} THEN r
        ELSE IF lines = <<>> THEN Raised(<<"EOFError", 0>>)
        ELSE IF lines[1] = <<>> THEN Raised(<<"CancelOperation", 0>>)
        ELSE Retry(PyStr(lines[1]), Tail(lines))

\* Grader.get_value(name) when the user types `lines`.
get_value(lines) ==
    LET value == validate_grade(PyStr(lines[1]))
    IN  IF value.out = "raise" THEN value
        ELSE IF ~DecimalBool(value.value) THEN Raised(<<"CancelOperation", 0>>)
        ELSE Retry(value.value, Tail(lines))

\* grade == row['grade'] between two Decimals.
RECURSIVE Pow10(_)
Pow10(n) == IF n = 0 THEN 1 ELSE 10 * Pow10(n - 1)
SameGrade(a, b) ==
    /\ a[1] = "Decimal" /\ b[1] = "Decimal"
    /\ a[2][1] * Pow10(-b[2][2]) = b[2][1] * Pow10(-a[2][2])

\* The end of Grader.step: the grade column after the grade is registered,
\* the user answering the question 'Overwrite?' by y or not.
Register(g, student, grade, overwrite) ==
    IF g[student] = NaN THEN [g EXCEPT ![student] = grade]
    ELSE IF SameGrade(grade, g[student]) THEN g
    ELSE IF overwrite THEN [g EXCEPT ![student] = grade]
    ELSE g

\* Grader.step, up to the student: select() gives a student, or raises
\* CancelOperation (the step starts again) or FinishGrading (run ends).
GraderSelect ==
    /\ pc = "select"
    /\ \/ \E s \in Students :
            /\ arg' = [fn |-> "step", student |-> s]
            /\ pc' = "get_value"
       \/ arg' = NoArg /\ pc' = "select"
       \/ arg' = NoArg /\ pc' = "finished"
    /\ ret' = NoRet
    /\ UNCHANGED <<cache, disk, INTERNET_SLOW, now, last, i, refreshed, problems,
                   exc, trace, gradervars>>

\* Grader.step, from get_value on, and self.save() in run.
GraderGrade ==
    /\ pc = "get_value"
    /\ \E lines \in Typed, overwrite \in BOOLEAN :
         LET r == get_value(lines)
         IN  /\ ret' = r
             /\ arg' = [fn |-> "get_value", student |-> arg.student, lines |-> lines]
             /\ grades' = IF r.out = "return"
                          THEN Register(grades, arg.student, r.value, overwrite)
                          ELSE grades
             /\ pc' = IF r.out = "return" \/ r.value[1] = "CancelOperation"
                      THEN "select" ELSE "raised"
             /\ exc' = IF r.out = "return" \/ r.value[1] = "CancelOperation"
                       THEN None ELSE r.value
    /\ UNCHANGED <<cache, disk, INTERNET_SLOW, now, last, i, refreshed, problems,
                   trace, files>>

\* Grader(students).run() has been called: no student has a grade.
InitGrade ==
    /\ cache = EmptyCache
    /\ INTERNET_SLOW = FALSE
    /\ now = 0
    /\ last = NoCall
    /\ pc = "select"
    /\ i = 0
    /\ refreshed = {}
    /\ problems = <<>>
    /\ exc = None
    /\ trace = <<>>
    /\ arg = NoArg
    /\ ret = NoRet
    /\ disk = cache
    /\ grades = [s \in Students |-> NaN]
    /\ files = NoFiles

NextGrade == GraderSelect \/ GraderGrade

SpecGrade == InitGrade /\ [][NextGrade]_vars

(* ------------------------- Grader.save_backup ------------------------ *)
MaxSaves == 7
BACKUPS == 5

\* The path given to Grader: a file name, a relative path with a directory
\* (whose backup directory holds no such directory), or an absolute path.
PathKinds == {"name", "nested", "absolute"}

\* for idx in range(5): ... if not os.path.exists(bak_name): break
Slots == 0..(BACKUPS - 1)
Free(bak) == Slots \ DOMAIN bak
Lowest(S) == CHOOSE n \in S : \A m \in S : n <= m

\* for idx in range(4): os.rename(<path>.bak-<idx + 1>, <path>.bak-<idx>)
Shift(bak) == [idx \in 0..(BACKUPS - 2) |-> bak[idx + 1]]

\* with open(path) as source: with open(bak_name, 'w') as destination: the
\* file is written under os.path.join(basepath, '<path>.bak-<idx>'), which
\* for a path with a directory lies in a directory that does not exist.
Writable(kind) == kind # "nested"

\* save_backup(path), the report at path being f.report.
save_backup(f, kind) ==
    LET full == Free(f.bak) = {}
        bak == IF full THEN Shift(f.bak) ELSE f.bak
        idx == IF full THEN BACKUPS - 1 ELSE Lowest(Free(f.bak))
    IN  IF ~Writable(kind)
        THEN [out |-> "raise", value |-> <<"FileNotFoundError", idx>>, files |-> f]
        ELSE [out |-> "return", value |-> PyInt(idx),
              files |-> [f EXCEPT !.bak = [n \in DOMAIN bak \cup {idx} |->
                                             IF n = idx THEN f.report ELSE bak[n]]]]

\* save_to_path(path): the next report is written at path.
save_to_path(f) == [f EXCEPT !.report = f.report + 1]

\* Grader(students, path=path): when the path exists the report is read and
\* backed up; then the report is saved.
GraderNew ==
    /\ pc \in {"idle", "raised"}
    /\ files.report + 1 <= MaxSaves
    /\ LET r == IF files.report # 0 THEN save_backup(files, arg.path)
                ELSE [out |-> "return", value |-> None, files |-> files]
       IN  /\ ret' = [out |-> r.out, value |-> r.value]
           /\ files' = IF r.out = "raise" THEN r.files ELSE save_to_path(r.files)
           /\ pc' = IF r.out = "raise" THEN "raised" ELSE "idle"
           /\ exc' = IF r.out = "raise" THEN r.value ELSE None
           /\ last' = [op |-> "Grader", before |-> files]
    /\ UNCHANGED <<cache, disk, INTERNET_SLOW, now, i, refreshed, problems, trace,
                   arg, grades>>

\* Grader.save(): the report is saved again after a step of run.
GraderSave ==
    /\ pc = "idle"
    /\ files.report # 0
    /\ files.report + 1 <= MaxSaves
    /\ files' = save_to_path(files)
    /\ last' = [op |-> "save", before |-> files]
    /\ UNCHANGED <<cache, disk, INTERNET_SLOW, now, pagvars, fnvars, grades>>

\* Neither the report nor a backup exists.
InitBackup ==
    /\ cache = EmptyCache
    /\ INTERNET_SLOW = FALSE
    /\ now = 0
    /\ last = NoCall
    /\ pc = "idle"
    /\ i = 0
    /\ refreshed = {}
    /\ problems = <<>>
    /\ exc = None
    /\ trace = <<>>
    /\ \E kind \in PathKinds : arg = [fn |-> "Grader", path |-> kind]
    /\ ret = NoRet
    /\ disk = cache
    /\ grades = NoData
    /\ files = NoFiles

NextBackup == GraderNew \/ GraderSave

SpecBackup == InitBackup /\ [][NextBackup]_vars

(* ------------------- the cache file and a crash ---------------------- *)
\* urlrefresh(url), its first statement: del cache[url] (a KeyError when
\* the url is not stored). No cache.sync() follows it.
RefreshDel ==
    /\ pc = "idle"
    /\ \E url \in FetchUrls :
         IF url \in DOMAIN cache
         THEN /\ cache' = CacheDel(cache, url)
              /\ pc' = "urlrefresh"
              /\ arg' = [fn |-> "urlrefresh", url |-> url]
              /\ UNCHANGED last
         ELSE /\ last' = Call("urlrefresh", url, FALSE, None,
                              urlrefresh(cache, INTERNET_SLOW, now, url, FALSE, None, NetFail))
              /\ UNCHANGED <<cache, pc, arg>>
    /\ UNCHANGED <<disk, INTERNET_SLOW, now, i, refreshed, problems, exc, trace, ret,
                   gradervars>>

\* urlrefresh(url), its second statement: urlopen(url, **kwds), which issues
\* the live request and, when it is answered, calls urlsave.
RefreshOpen ==
    /\ pc = "urlrefresh"
    /\ \E net \in Offered(arg.url, urlopen(cache, INTERNET_SLOW, now, arg.url, FALSE, None, NetFail)) :
         LET r == urlopen(cache, INTERNET_SLOW, now, arg.url, FALSE, None, net)
         IN  /\ cache' = r.cache
             /\ disk' = Synced(disk, r)
             /\ INTERNET_SLOW' = r.slow
             /\ last' = Call("urlrefresh", arg.url, FALSE, None,
                             IF r.out = "raise" THEN r ELSE [r EXCEPT !.value = None])
    /\ pc' = "idle"
    /\ arg' = NoArg
    /\ UNCHANGED <<now, i, refreshed, problems, exc, trace, ret, gradervars>>

\* The process is killed, at any point, and the program is started again:
\* urlcache() opens the shelve from the file.
Crash ==
    /\ cache' = disk
    /\ INTERNET_SLOW' = FALSE
    /\ pc' = "idle"
    /\ arg' = NoArg
    /\ last' = [op |-> "crash", lost |-> cache # disk]
    /\ UNCHANGED <<disk, now, i, refreshed, problems, exc, trace, ret, gradervars>>

NextSync == UrlOpen \/ RefreshDel \/ RefreshOpen \/ Crash

SpecSync == Init /\ [][NextSync]_vars

(* ============================== claims =============================== *)
\* The call recorded in `last` issued a live request that failed in transport.
TransportFailed(l) == l.req = 1 /\ l.net.kind = "exc"

\* The call recorded in `last` issued a live request that was answered.
Answered(l) == l.req = 1 /\ l.net.kind = "resp"

HadText(l) == l.had /\ l.before[2][1] = "str"
HadCode(l) == l.had /\ IsInt(l.before[2])

\* The age, in minutes, of the entry the call found.
Age(l) == l.at - l.before[1][2]

\* C1: a urlopen call that finds a text entry for its url, reaches the live
\* request and sees it fail in transport returns the cached text and does
\* not raise.
C1_FallbackReturnsCachedText ==
    (last.op = "urlopen" /\ HadText(last) /\ TransportFailed(last))
        => (last.out = "return" /\ last.value = last.before[2])

\* C3: a live request of urlopen or htmlopen answered with a status other
\* than 200 leaves that status code as the cache payload of the url, and the
\* call fails with an error carrying the status code.
C3_ErrorStatusStoredAndRaised ==
    (last.op \in {"urlopen", "htmlopen"} /\ Answered(last) /\ last.net.status # HTTP_OK)
        => /\ last.url \in DOMAIN cache
           /\ cache[last.url][2] = PyInt(last.net.status)
           /\ last.out = "raise"
           /\ last.value = <<"RuntimeError", last.net.status>>

\* C5 (as claimed): of two consecutive urlopen(url) calls with no expiry and
\* no refresh, exactly one request is issued in total, and the second call
\* returns the payload the first returned.
C5_TwoCallsOneRequest ==
    (Plain(last) /\ last.prior # NoPrior)
        => /\ last.prior[1] + last.req = 1
           /\ last.out = "return"
           /\ last.prior[2] = "return"
           /\ last.value = last.prior[3]

\* C5 (amended): a urlopen(url) call with no expiry and no refresh that
\* returns a text issued one request if the url had no entry and none if it
\* had one; a second such call directly after it issues no request and
\* returns the same text, so the two together issue at most one request.
C5_SecondCallFromCache ==
    /\ (Plain(last) /\ last.out = "return" /\ last.value[1] = "str")
          => last.req = (IF last.had THEN 0 ELSE 1)
    /\ (Plain(last) /\ last.prior[2] = "return" /\ last.prior[3][1] = "str")
          => /\ last.req = 0
             /\ last.out = "return"
             /\ last.value = last.prior[3]
             /\ last.had

\* The first of the two calls fetched the text live, the second was
\* answered from the cache with the same text.
C5_Witness ==
    /\ Plain(last)
    /\ last.prior = <<1, "return", last.value>>
    /\ last.value[1] = "str"
    /\ last.req = 0

\* C6: with expires = T minutes and the flag not set, a urlopen call that
\* finds a text entry aged exactly T returns it without a request, and one
\* that finds a text entry older than T attempts a live request.
C6_ExpiryBoundary ==
    (/\ last.op = "urlopen" /\ ~last.refresh /\ IsInt(last.expires)
     /\ ~last.slow /\ HadText(last))
        => /\ Age(last) = MINUTE_DELTA * last.expires[2]
                => (last.req = 0 /\ last.out = "return" /\ last.value = last.before[2])
           /\ Age(last) > MINUTE_DELTA * last.expires[2] => last.req = 1

\* A call with expires = T found a text entry aged exactly T > 0.
C6_Witness ==
    /\ last.op = "urlopen" /\ ~last.refresh /\ IsInt(last.expires)
    /\ ~last.slow /\ HadText(last)
    /\ Age(last) = MINUTE_DELTA * last.expires[2]
    /\ Age(last) > 0
    /\ last.req = 0

\* C7: a urlopen call without refresh that finds a status code in the entry
\* of its url raises an error carrying that code, issues no request and
\* leaves the entry as it was, whatever expires, the age and the flag are.
C7_CachedErrorNotRetried ==
    (last.op = "urlopen" /\ ~last.refresh /\ HadCode(last))
        => /\ last.out = "raise"
           /\ last.value = <<"RuntimeError", last.before[2][2]>>
           /\ last.req = 0
           /\ last.url \in DOMAIN cache
           /\ cache[last.url] = last.before

\* A call with an expiry found a status code older than the expiry while
\* the flag was not set.
C7_Witness ==
    /\ last.op = "urlopen" /\ ~last.refresh /\ HadCode(last)
    /\ IsInt(last.expires) /\ Age(last) > MINUTE_DELTA * last.expires[2]
    /\ ~last.slow
    /\ last.out = "raise"

\* C8: a urlopen call for a url without an entry whose live request fails
\* in transport raises the transport failure, stores no entry for the url
\* and leaves INTERNET_SLOW set.
C8_ColdFailurePropagates ==
    (last.op = "urlopen" /\ ~last.had /\ TransportFailed(last))
        => /\ last.out = "raise"
           /\ last.value = <<"TransportError", 0>>
           /\ last.url \notin DOMAIN cache
           /\ INTERNET_SLOW

\* The transport failure of a url without an entry, while another url is
\* stored.
C8_Witness ==
    /\ last.op = "urlopen" /\ ~last.had /\ TransportFailed(last)
    /\ last.out = "raise"
    /\ DOMAIN cache # {}
    /\ ~last.slow

\* C9: once INTERNET_SLOW is set, a urlopen call without refresh for a url
\* with a cached text returns that text and issues no request, however old
\* the entry is and whatever expires is.
C9_DegradedUsesCache ==
    (last.op = "urlopen" /\ ~last.refresh /\ last.slow /\ HadText(last))
        => /\ last.out = "return"
           /\ last.value = last.before[2]
           /\ last.req = 0

\* With the flag set, a call with an expiry found a text older than it.
C9_Witness ==
    /\ last.op = "urlopen" /\ ~last.refresh /\ last.slow /\ HadText(last)
    /\ IsInt(last.expires) /\ Age(last) > MINUTE_DELTA * last.expires[2]
    /\ last.req = 0

\* C10: INTERNET_SLOW is false initially, is never reset once set, and is set
\* only by a call whose live request failed in transport.
C10_FlagSticky ==
    /\ ~INTERNET_SLOW
    /\ [][/\ INTERNET_SLOW => INTERNET_SLOW'
          /\ (~INTERNET_SLOW /\ INTERNET_SLOW')
                => (last'.op # "none" /\ TransportFailed(last'))]_vars

\* The flag is set and a paginator call has ended after it was set.
C10_Witness ==
    /\ INTERNET_SLOW
    /\ pc \in {"done", "raised"}
    /\ \E k \in 1..Len(trace) : TransportFailed(trace[k])
    /\ \E k \in 1..Len(trace) : ~TransportFailed(trace[k])

\* The rows a page load extracted, when htmlopen returned a page with a table.
Yields(e) == e.ev = "load" /\ e.out = "return" /\ HasTable(e.value[2])
RowsOf(e) == Transaction(Tbody(e.value[2]), <<>>)
FullLoad(e) == Yields(e) /\ Len(RowsOf(e)) = PAGE_SIZE

\* The page of a load answered with status 404, by a live request or by the
\* status code recorded in the cache.
Answer404(e) ==
    /\ e.ev = "load"
    /\ \/ e.req = 1 /\ e.net.kind = "resp" /\ e.net.status = NOT_FOUND
       \/ e.req = 0 /\ e.out = "raise" /\ e.value = <<"RuntimeError", NOT_FOUND>>

\* The rows of the first n events of the trace, in order.
RECURSIVE ConcatRows(_, _)
ConcatRows(tr, n) ==
    IF n = 0 THEN <<>> ELSE ConcatRows(tr, n - 1) \o RowsOf(tr[n])

\* The call loaded pages 1..k, each full, and then page k+1, answered 404.
CleanRun ==
    /\ Len(trace) >= 1
    /\ \A k \in 1..(Len(trace) - 1) : FullLoad(trace[k]) /\ trace[k].page = k
    /\ Answer404(trace[Len(trace)])
    /\ trace[Len(trace)].page = Len(trace)

\* C2: when pages 1..k each yield 28 rows and page k+1 answers 404,
\* get_public_problems ends normally with exactly the rows of pages 1..k,
\* in page order and in row order.
C2_CleanEnd ==
    CleanRun => (pc = "done" /\ problems = ConcatRows(trace, Len(trace) - 1))

\* The load of page p that is the last one among the first k events.
LastLoad(p, k) ==
    CHOOSE j \in 1..k :
        /\ trace[j].ev = "load" /\ trace[j].page = p
        /\ \A m \in (j + 1)..k : ~(trace[m].ev = "load" /\ trace[m].page = p)

\* The rows of pages 1..p as last loaded among the first k events.
RECURSIVE PagesRows(_, _)
PagesRows(p, k) ==
    IF p = 0 THEN <<>> ELSE PagesRows(p - 1, k) \o RowsOf(trace[LastLoad(p, k)])

\* Events k, k+1, k+2 are: a load of a page with r < 28 rows, the refresh of
\* that page, and a load of it with r rows again.
ShortConfirmed(k) ==
    /\ k + 2 <= Len(trace)
    /\ trace[k + 1].ev = "refresh" /\ trace[k + 1].page = trace[k].page
    /\ trace[k + 2].page = trace[k].page
    /\ Yields(trace[k]) /\ Len(RowsOf(trace[k])) < PAGE_SIZE
    /\ Yields(trace[k + 2])
    /\ Len(RowsOf(trace[k + 2])) = Len(RowsOf(trace[k]))

\* C4: when page N yields r < 28 rows and, after the refresh of its url,
\* yields r rows again, the call ends there (nothing is requested after that
\* load) with the rows of pages 1..N-1 followed by those r rows.
C4_ShortPageConfirmed ==
    \A k \in 1..Len(trace) :
        ShortConfirmed(k)
            => /\ k + 2 = Len(trace)
               /\ pc = "done"
               /\ problems = PagesRows(trace[k].page - 1, k) \o RowsOf(trace[k + 2])

\* Page 1 was full, page 2 short; its refresh issued a live request, and
\* page 2 was short again.
C4_Witness ==
    \E k \in 1..Len(trace) :
        /\ ShortConfirmed(k)
        /\ trace[k].page = 2
        /\ trace[k + 1].req = 1
        /\ Len(RowsOf(trace[k + 2])) > 0
        /\ pc = "done"
        /\ Len(problems) = PAGE_SIZE + Len(RowsOf(trace[k + 2]))

\* C11: every urlrefresh(url) call issues a live request for url, whether the
\* url had a text, a status code or no entry, whatever the age of the entry
\* and the flag; when the request is answered, the entry of url holds the
\* outcome of that request, stamped with the time of the call.
C11_RefreshUnconditional ==
    last.op = "urlrefresh"
        => /\ last.req = 1
           /\ Answered(last)
                => /\ last.url \in DOMAIN cache
                   /\ cache[last.url] = <<PyDate(last.at), ResponseData(last.net)>>

\* The cells of the table, as pairs <<row, column>>.
Cells(t) == UNION {{<<r, c>> : c \in 1..Len(t[r])} : r \in 1..Len(t)}

\* C12: progress maps every cell of class solved to 100, tried to 0 and void
\* to NaN; when some cell has another class the extraction raises and
\* returns no table.
C12_CellClassification ==
    (arg.fn = "progress" /\ ret.out # "none")
        => IF \E rc \in Cells(arg.table) :
                  arg.table[rc[1]][rc[2]] \notin {"solved", "tried", "void"}
           THEN ret.out = "raise" /\ ret.value[1] = "RuntimeError"
           ELSE /\ ret.out = "return"
                /\ Len(ret.value) = Len(arg.table)
                /\ \A r \in 1..Len(arg.table) : Len(ret.value[r]) = Len(arg.table[r])
                /\ \A rc \in Cells(arg.table) :
                     LET class == arg.table[rc[1]][rc[2]]
                         value == ret.value[rc[1]][rc[2]]
                     IN  /\ class = "solved" => value = PyInt(100)
                         /\ class = "tried" => value = PyInt(0)
                         /\ class = "void" => value = NaN

\* A table with a solved, a tried and a void cell was extracted.
C12_Witness ==
    /\ arg.fn = "progress" /\ ret.out = "return"
    /\ \E r1, r2 \in 1..Len(ret.value) :
         \E c1, c2, c3 \in 1..Len(ret.value[r1]) :
            /\ Len(ret.value[r2]) >= c3
            /\ ret.value[r1][c1] = PyInt(100) /\ arg.table[r1][c1] = "solved"
            /\ ret.value[r1][c2] = PyInt(0) /\ arg.table[r1][c2] = "tried"
            /\ ret.value[r2][c3] = NaN /\ arg.table[r2][c3] = "void"

\* C13: after a run of main that cleared the cache no url that was stored
\* before has an entry, and a urlopen of such a url that directly follows
\* finds no entry and issues a live request.
C13_ClearedThenLive ==
    /\ (last.op = "main" /\ last.unlinked)
          => \A u \in last.stored : u \notin DOMAIN cache
    /\ (last.op \in {"urlopen", "htmlopen"} /\ last.url \in last.cleared)
          => (~last.had /\ last.req = 1)

\* A url stored with a text was cleared and then requested live by a urlopen
\* that would have been answered from the cache.
C13_Witness ==
    /\ last.op = "urlopen" /\ ~last.refresh /\ IsNone(last.expires)
    /\ last.url \in last.cleared
    /\ last.req = 1
    /\ Answered(last)

\* The page a problem id of the model's documents belongs to.
PageOfRow(id) == id \div 100

\* C14: get_public_problems loads page 1 first; a load is of the page of the
\* refresh directly before it, or else of the page after the one loaded
\* last; page N+1 is loaded only after a load of page N yielded a full page
\* whose rows are in problems; and problems is ordered by page and, within
\* a page, by row (each row stands before the next in that order).
C14_Ordering ==
    /\ Len(trace) >= 1 => (trace[1].ev = "load" /\ trace[1].page = 1)
    /\ \A k \in 2..Len(trace) :
         trace[k].ev = "load"
            => IF trace[k - 1].ev = "refresh"
               THEN trace[k].page = trace[k - 1].page
               ELSE trace[k].page = trace[k - 1].page + 1
    /\ \A j, k \in 1..Len(trace) :
         (j < k /\ trace[j].ev = "load" /\ trace[k].ev = "load")
            => trace[j].page <= trace[k].page
    /\ \A k \in 1..Len(trace) :
         (trace[k].ev = "load" /\ trace[k].page > 1)
            => \E j \in 1..(k - 1) :
                 /\ trace[j].page = trace[k].page - 1
                 /\ Yields(trace[j])
                 /\ Len(problems) >= PAGE_SIZE * trace[j].page
                 /\ LET rows == RowsOf(trace[j])
                    IN  /\ Len(rows) = PAGE_SIZE
                        /\ SubSeq(problems, PAGE_SIZE * (trace[j].page - 1) + 1,
                                  PAGE_SIZE * trace[j].page) = rows
    /\ \A a \in 1..(Len(problems) - 1) :
         /\ PageOfRow(problems[a]) <= PageOfRow(problems[a + 1])
         /\ problems[a] < problems[a + 1]

\* Pages 1 and 2 were full, page 3 was short, refreshed and loaded again:
\* the call returned the rows of the three pages.
C14_Witness ==
    /\ pc = "done"
    /\ Len(trace) = 5
    /\ trace[4].ev = "refresh"
    /\ trace[5].page = 3
    /\ Len(problems) > 2 * PAGE_SIZE

\* C15: every cache entry is a pair of a timestamp and a payload that is a
\* response text or a status code other than 200, never None; the entry a
\* completed live request left is stamped with the time of that request and
\* holds its outcome: the text of a 200 answer, the status code otherwise.
C15_EntryInvariant ==
    /\ \A u \in DOMAIN cache :
         /\ Len(cache[u]) = 2
         /\ cache[u][1][1] = "datetime"
         /\ cache[u][1][2] <= now
         /\ cache[u][2][1] \in {"str", "int"}
         /\ cache[u][2][1] = "int" => cache[u][2][2] # 200
    /\ (last.op \in {"urlopen", "htmlopen", "urlrefresh"} /\ Answered(last))
          => /\ last.url \in DOMAIN cache
             /\ cache[last.url][1] = PyDate(last.at)
             /\ cache[last.url][2] =
                   IF last.net.status = 200 THEN PyStr(last.net.text)
                   ELSE PyInt(last.net.status)

\* The cache holds a text and a status code, stored at different times.
C15_Witness ==
    \E u, v \in DOMAIN cache :
        /\ cache[u][2][1] = "str"
        /\ cache[v][2][1] = "int"
        /\ cache[u][1] # cache[v][1]
        /\ Answered(last) /\ last.url = v

\* C16: normalize_language returns the canonical label of every recognised
\* alias (so a canonical label is returned as it is) and fails with
\* SystemExit on any other input; filter_problems with a recognised lang
\* and no ids keeps exactly the problems whose language is that label.
C16_NormalizeAndFilter ==
    /\ (arg.fn = "normalize_language" /\ ret.out # "none")
          => IF arg.lang[2] \in DOMAIN aliases
             THEN ret.out = "return" /\ ret.value = PyStr(aliases[arg.lang[2]])
             ELSE ret.out = "raise" /\ ret.value[1] = "SystemExit"
    /\ (/\ arg.fn = "filter_problems" /\ ret.out # "none"
        /\ arg.lang[1] = "str" /\ arg.lang[2] \in DOMAIN aliases /\ arg.ids = {})
          => /\ ret.out = "return"
             /\ ret.value = ByLang(arg.problems, PyStr(aliases[arg.lang[2]]))

\* C17: a run of main given --clear or -c together with a subcommand empties
\* the cache and then executes that subcommand, which starts with no url
\* stored.
C17_ClearThenProceed ==
    (/\ last.op = "main"
     /\ last.argv.long \/ last.argv.short
     /\ last.argv.command \in Commands)
        => /\ last.ran = last.argv.command
           /\ last.seen = {}
           /\ cache = EmptyCache

\* C18: every refresh get_public_problems makes after a short page issues a
\* live request for the url of that page, whatever the age of its entry.
C18_RefreshIsLive ==
    \A k \in 1..Len(trace) : trace[k].ev = "refresh" => trace[k].req = 1

\* The last load of page p that yielded rows.
LastYield(p) ==
    CHOOSE j \in 1..Len(trace) :
        /\ Yields(trace[j]) /\ trace[j].page = p
        /\ \A m \in (j + 1)..Len(trace) : ~(Yields(trace[m]) /\ trace[m].page = p)

\* The load at event k yielded a short page.
ShortLoad(k) == Yields(trace[k]) /\ Len(RowsOf(trace[k])) < PAGE_SIZE

\* C19: when get_public_problems returns normally after a load of page N
\* yielded a short page, the returned rows start with the rows of pages
\* 1..N-1 followed by the rows of page N as last extracted.
C19_ShortPageKept ==
    pc = "done"
        => \A k \in 1..Len(trace) :
              ShortLoad(k)
                 => LET N == trace[k].page
                        want == PagesRows(N - 1, Len(trace)) \o RowsOf(trace[LastYield(N)])
                    IN  /\ Len(problems) >= Len(want)
                        /\ SubSeq(problems, 1, Len(want)) = want

\* The HTTP status the event met, from a live answer or from the code
\* recorded in the cache; 200 when it met none.
StatusMet(e) ==
    IF e.req = 1 /\ e.net.kind = "resp" THEN e.net.status
    ELSE IF e.req = 0 /\ e.out = "raise" /\ e.value[1] = "RuntimeError" THEN e.value[2]
    ELSE HTTP_OK

\* C20: when a load or a refresh of get_public_problems meets an HTTP status
\* other than 200 and 404, the call ends there with an error carrying that
\* status: nothing is loaded or refreshed after it and no rows are returned.
C20_ErrorIsFatal ==
    \A k \in 1..Len(trace) :
        StatusMet(trace[k]) \notin {HTTP_OK, NOT_FOUND}
            => /\ k = Len(trace)
               /\ pc = "raised"
               /\ exc = <<"RuntimeError", StatusMet(trace[k])>>

\* The events of kind ev for page p, and the live requests for page p.
EventsOf(ev, p) == {k \in 1..Len(trace) : trace[k].ev = ev /\ trace[k].page = p}
LiveOf(p) == {k \in 1..Len(trace) : trace[k].page = p /\ trace[k].req = 1}

\* C21: within one get_public_problems call every page url is refreshed at
\* most once and loaded at most twice, at most two live requests are issued
\* for it, and i is below the page of the last event only directly after
\* the refresh of that page, by one.
C21_TwoStrikes ==
    /\ \A p \in 1..MaxPage :
         /\ Cardinality(EventsOf("refresh", p)) <= 1
         /\ Cardinality(EventsOf("load", p)) <= 2
         /\ Cardinality(LiveOf(p)) <= 2
    /\ Len(trace) >= 1
          => LET e == trace[Len(trace)]
             IN  IF e.ev = "refresh" /\ pc = "load"
                 THEN i = e.page - 1
                 ELSE i = e.page
    /\ refreshed = {urlbase(p) : p \in {q \in 1..MaxPage :
                       \E k \in EventsOf("refresh", q) : trace[k].out = "return"}}

\* A page was loaded by a live request, refreshed by a second live request
\* and loaded again.
C21_Witness ==
    \E p \in 1..MaxPage :
        /\ Cardinality(EventsOf("load", p)) = 2
        /\ Cardinality(EventsOf("refresh", p)) = 1
        /\ Cardinality(LiveOf(p)) = 2

\* The call has ended, by a return or by an exception.
Stopped == pc \in {"done", "raised"}

\* Every page of the model was loaded as a full page.
AllFull == pc = "load" /\ i = MaxPage /\ Len(problems) = MaxPage * PAGE_SIZE

\* C22: a running get_public_problems call eventually returns or raises,
\* unless every page up to the last one of the model yielded 28 rows.
C22_Terminates == (pc \in {"load", "refresh"}) ~> (Stopped \/ AllFull)

\* The call loaded a full page from the cache, requested the next page live
\* and returned on its short page.
C22_Witness ==
    /\ pc = "done"
    /\ Len(trace) = 4
    /\ trace[1].req = 0
    /\ trace[2].req = 1
    /\ Len(problems) > PAGE_SIZE

C24_TimeoutSelection ==
    /\ (last.op \in {"urlopen", "htmlopen"} /\ last.req = 1)
          => last.timeout = (IF last.had THEN 10 ELSE 30)
    /\ (last.op = "urlrefresh" /\ last.req = 1) => last.timeout = 30

\* An expired text was requested again with the short timeout, and failed.
C24_Witness ==
    /\ last.op = "urlopen" /\ ~last.refresh /\ IsInt(last.expires)
    /\ HadText(last) /\ TransportFailed(last)
    /\ last.timeout = 10

\* The index of the first row with an empty first cell or a single cell, or
\* the number of rows plus one when there is none.
FirstStop(tb) ==
    IF \E k \in 1..Len(tb) : tb[k].first = 0 \/ tb[k].len = 1
    THEN CHOOSE k \in 1..Len(tb) :
            /\ tb[k].first = 0 \/ tb[k].len = 1
            /\ \A j \in 1..(k - 1) : ~(tb[j].first = 0 \/ tb[j].len = 1)
    ELSE Len(tb) + 1

\* C25: the rows extracted from a page are exactly the rows before the first
\* row with an empty first cell or a single cell, in order; no row at or
\* after it is extracted, and the page counts as full only when 28 rows
\* stand before it.
C25_EndOfDataRow ==
    (arg.fn = "rows" /\ ret.out = "return")
        => LET tb == arg.tbody
               n == FirstStop(tb) - 1
           IN  /\ Len(ret.value.transaction) = n
               /\ \A k \in 1..n : ret.value.transaction[k] = tb[k].first
               /\ ret.value.full <=> (n = 28)

\* A data row stands after a single-cell row and is not extracted, while
\* the rows before the single-cell row are.
C25_Witness ==
    /\ arg.fn = "rows" /\ ret.out = "return"
    /\ \E k \in 1..Len(arg.tbody) :
         /\ arg.tbody[k].len = 1
         /\ k < Len(arg.tbody)
         /\ arg.tbody[k + 1].len = 7 /\ arg.tbody[k + 1].first # 0
         /\ Len(ret.value.transaction) = k - 1
         /\ k > 1

\* The positions of the header cells that are neither the name cell, nor
\* the total cell, nor a sentinel.
QuestionCells(header) ==
    {k \in 2..(Len(header) - 1) : header[k] # "-"}

\* The k-th smallest element of a set of numbers.
RECURSIVE Nth(_, _)
Nth(S, k) ==
    LET m == CHOOSE x \in S : \A y \in S : x <= y
    IN  IF k = 1 THEN m ELSE Nth(S \ {m}, k - 1)

\* C26 (as claimed): progress returns one column for each header cell that
\* is neither a sentinel nor the name or total cell, in header order; their
\* number is len(header) minus the number of sentinels minus 2, and every
\* row is cut to that number of values.
C26_ColumnsAreNonSentinel ==
    (arg.fn = "columns" /\ ret.out # "none")
        => LET q == QuestionCells(arg.header)
               n == Cardinality(q)
           IN  /\ ret.out = "return"
               /\ Len(ret.value.columns) = n
               /\ n = Len(arg.header) - Cardinality({k \in 1..Len(arg.header) : arg.header[k] = "-"}) - 2
               /\ \A k \in 1..n : ret.value.columns[k][1] = ToInt[arg.header[Nth(q, k)]]
               /\ \A r \in 1..Len(arg.responses) :
                     ret.value.rows[r] = SubSeq(arg.responses[r], 1, n)

\* Every sentinel of the header stands after every question cell.
SentinelsTrail(header) ==
    \A j, k \in 2..(Len(header) - 1) :
        (header[j] = "-" /\ header[k] # "-") => k < j

\* C26 (amended): with n = len(header) minus the number of sentinels minus
\* 2, the columns are the n header cells that follow the name cell, and
\* every row is cut to its first n values; when a sentinel is among those
\* n cells progress raises ValueError and returns no table. When every
\* sentinel stands after every question cell the columns are exactly the
\* cells that are neither a sentinel nor the name or total cell.
C26_ColumnsArePrefix ==
    (arg.fn = "columns" /\ ret.out # "none")
        => LET header == arg.header
               n == Len(header) - Cardinality({k \in 1..Len(header) : header[k] = "-"}) - 2
           IN  /\ IF \E k \in 2..(n + 1) : header[k] = "-"
                  THEN ret.out = "raise" /\ ret.value[1] = "ValueError"
                  ELSE /\ ret.out = "return"
                       /\ Len(ret.value.columns) = n
                       /\ \A k \in 1..n : ret.value.columns[k][1] = ToInt[header[k + 1]]
                       /\ Len(ret.value.rows) = Len(arg.responses)
                       /\ \A r \in 1..Len(arg.responses) :
                             ret.value.rows[r] = SubSeq(arg.responses[r], 1, n)
               /\ SentinelsTrail(header)
                     => /\ ret.out = "return"
                        /\ {k + 1 : k \in 1..n} = QuestionCells(header)

\* Two question cells followed by a sentinel: two columns, and rows of three
\* values cut to two.
C26_Witness ==
    /\ arg.fn = "columns" /\ ret.out = "return"
    /\ Len(arg.header) = 5
    /\ arg.header[4] = "-"
    /\ Len(ret.value.columns) = 2
    /\ Len(ret.value.rows) >= 1
    /\ Len(arg.responses[1]) = 3
    /\ Len(ret.value.rows[1]) = 2

\* The last call of __htmlopen made by progress, when it is a reload.
Reloaded == trace # <<>> /\ trace[Len(trace)].ev = "reload"

\* C27: in Discipline.progress, a reload of the progress page or of the
\* detail page (made when the progress page was stored on or before the
\* deadline) that finds the entry of its url older than 120 minutes while
\* the network is not marked slow issues a live request.
C27_ReloadIsLive ==
    (/\ Reloaded
     /\ last.had
     /\ last.at - last.before[1][2] > REFRESH_EXPIRES
     /\ ~last.slow)
    => last.req = 1

\* C28: no validation exception (InvalidOperation, ValidationError) leaves
\* Grader.step and Grader.run: a line that is no decimal is answered by a
\* new prompt, or by the cancellation of the step when the line is empty.
C28_BadGradeRecovered ==
    pc = "raised" => exc[1] \notin {"InvalidOperation", "ValidationError"}

\* A call of save_backup has just ended.
BackedUp == last.op = "Grader" /\ last.before.report # 0

\* C29: at most five backups exist, at the indices 0..4; a call of
\* save_backup writes the report at the lowest free index while there is
\* one, and otherwise renames the backups 1..4 to 0..3 and writes the report
\* at index 4; the backups are ordered from the oldest to the newest.
C29_BackupRotation ==
    /\ DOMAIN files.bak \subseteq Slots
    /\ \A m, n \in DOMAIN files.bak : m < n => files.bak[m] < files.bak[n]
    /\ BackedUp =>
         LET before == last.before.bak
         IN  IF Free(before) # {}
             THEN /\ DOMAIN files.bak = DOMAIN before \cup {Lowest(Free(before))}
                  /\ files.bak[Lowest(Free(before))] = last.before.report
                  /\ \A n \in DOMAIN before : files.bak[n] = before[n]
             ELSE /\ DOMAIN files.bak = Slots
                  /\ files.bak[BACKUPS - 1] = last.before.report
                  /\ \A n \in 0..(BACKUPS - 2) : files.bak[n] = before[n + 1]

\* C30: every mutation of the cache (the put of urlsave, the delete of
\* urlrefresh) is followed by a sync before any further step: between two
\* steps, and so whenever a request is about to be issued or the process is
\* killed, the file holds the cache as the mutations made so far left it.
C30_MutationsSynced == disk = cache

====
